---- MODULE Spec2Model ----
(***************************************************************************)
(* Model of the ingestion-and-indexing pipeline (index_documents.py) and   *)
(* of the hybrid query handler (mcp_opensearch_server.py).                 *)
(*                                                                         *)
(* Texts are sequences of one-character strings.  Ids minted by uuid4 are  *)
(* fresh naturals.  An embedding vector is abstracted to its number of     *)
(* dimensions and a direction; the empty list [] is EmptyVector.           *)
(* Scores are in tenths (cosine 1.0 is 10).                                *)
(***************************************************************************)
EXTENDS Integers, Sequences, FiniteSets, TLC

\* ---------------------------------------------------------------- bounds
\* Number of PDF files the directory can hold.
NumFiles == 2
\* Number of pages (hence paragraphs) a PDF file can hold.
MaxChunks == 2
\* Number of external-call failures injected into one ingestion run.
MaxFaults == 1
\* Number of direct calls made by the writer harness.
MaxCalls == 2
\* Length of the texts handed to chunk_document on its own.
MaxText == 5

\* ------------------------------------------------------------- constants
None == 0
OPENSEARCH_INDEX == "documents"
\* the default of the setting CHUNK_MODE, as a text
CHUNK_MODE == <<"p", "a", "r", "a", "g", "r", "a", "p", "h">>
\* dims of the mapping created by create_index_if_not_exists, which is also
\* the dimensionality of text-embedding-ada-002 vectors.
MappingDims == 1536
\* dims of an index that somebody else created with another embedding model.
ForeignDims == MappingDims \div 2

\* the default of the setting OPENAI_SUMMARY_MODEL
OPENAI_SUMMARY_MODEL == "gpt4o-mini"
\* the values of that setting: the default, and a model name set in .env
SummaryModels == {OPENAI_SUMMARY_MODEL, "gpt-3.5-turbo-instruct"}
\* the default of the setting CONTEXT_MAX_TOKENS
CONTEXT_MAX_TOKENS == 2048

EmptyVector == [dims |-> 0, dir |-> 0]
\* The text the generation service answers with (already stripped).
GeneratedSummary == <<"s">>
\* Page contents of the PDF files: page i holds the one-letter paragraph i.
Letters == <<"a", "b", "c", "d", "e">>

Min(S) == CHOOSE x \in S : \A y \in S : x <= y
Max(S) == CHOOSE x \in S : \A y \in S : x >= y
Abs(n) == IF n < 0 THEN -n ELSE n

\* ------------------------------------------------------------ text helpers
\* str.isspace() on one character: the blank, tab, line feed, vertical tab,
\* form feed, carriage return, the four separators 0x1c to 0x1f, next line
\* (U+0085), the no-break space (U+00A0) and the ogham space mark (U+1680).
\* The spaces of U+2000 to U+3000, for which str.isspace() holds too, cannot
\* be written in a string here.
WhiteSpace ==
  {" ", "\t", "\n", "", "\f", "\r", "", "", "", "",
   "", " ", " "}

IsSpace(c) == c \in WhiteSpace

\* str.lower() on an ASCII text
UpperCase == <<"A", "B", "C", "D", "E", "F", "G", "H", "I", "J", "K", "L", "M",
               "N", "O", "P", "Q", "R", "S", "T", "U", "V", "W", "X", "Y", "Z">>
LowerCase == <<"a", "b", "c", "d", "e", "f", "g", "h", "i", "j", "k", "l", "m",
               "n", "o", "p", "q", "r", "s", "t", "u", "v", "w", "x", "y", "z">>

lower(s) ==
  [i \in 1..Len(s) |->
     IF \E k \in 1..Len(UpperCase) : UpperCase[k] = s[i]
     THEN LowerCase[CHOOSE k \in 1..Len(UpperCase) : UpperCase[k] = s[i]]
     ELSE s[i]]

\* str.strip(): whitespace is removed from both ends.

RECURSIVE lstrip(_)
lstrip(s) == IF s # <<>> /\ IsSpace(Head(s)) THEN lstrip(Tail(s)) ELSE s

RECURSIVE rstrip(_)
rstrip(s) ==
  IF s # <<>> /\ IsSpace(s[Len(s)]) THEN rstrip(SubSeq(s, 1, Len(s) - 1)) ELSE s

strip(s) == rstrip(lstrip(s))

\* str.split("\n\n"): cut at the non-overlapping occurrences of two newlines,
\* scanning from the left; a text without the separator is one piece.
RECURSIVE split(_)
split(s) ==
  LET at == {i \in 1..(Len(s) - 1) : s[i] = "\n" /\ s[i + 1] = "\n"}
  IN  IF at = {} THEN <<s>>
      ELSE <<SubSeq(s, 1, Min(at) - 1)>> \o split(SubSeq(s, Min(at) + 2, Len(s)))

\* "\n\n".join(pieces)
RECURSIVE join(_)
join(pieces) ==
  IF pieces = <<>> THEN <<>>
  ELSE IF Len(pieces) = 1 THEN pieces[1]
  ELSE pieces[1] \o <<"\n", "\n">> \o join(Tail(pieces))

\* Mutant of StripAndKeep: the empty paragraphs are kept.
RECURSIVE StripOnly(_)
StripOnly(pieces) ==
  IF pieces = <<>> THEN <<>>
  ELSE <<strip(Head(pieces))>> \o StripOnly(Tail(pieces))

\* the loop "for paragraph in ...: p = paragraph.strip(); if p: append"
RECURSIVE StripAndKeep(_)
StripAndKeep(pieces) ==
  IF pieces = <<>> THEN <<>>
  ELSE LET p == strip(Head(pieces))
       IN  (IF p # <<>> THEN <<p>> ELSE <<>>) \o StripAndKeep(Tail(pieces))

\* RecursiveCharacterTextSplitter on a text shorter than chunk_size: the
\* non-empty pieces are merged back into one stripped chunk.
SemanticSplit(text) == IF strip(text) = <<>> THEN <<>> ELSE <<strip(text)>>

chunk_document(text) ==
  IF lower(CHUNK_MODE) = <<"p", "a", "r", "a", "g", "r", "a", "p", "h">>
  THEN StripAndKeep(split(text))
  ELSE IF lower(CHUNK_MODE) = <<"s", "e", "m", "a", "n", "t", "i", "c">>
  THEN SemanticSplit(text)
  ELSE StripAndKeep(split(text))

\* ------------------------------------------------------- token accountant
\* The model names for which tiktoken.encoding_for_model has an encoding;
\* for any other name it raises KeyError.
KnownModels == {"gpt-3.5-turbo-instruct"}
KeyError == <<"KeyError">>

\* truncate_text(text, max_tokens, model), as the set of its outcomes.  The
\* encoding is a byte-level one: an ASCII text of n characters has between 1
\* and n tokens (none when it is empty), and the tokens of a text spell the
\* text.  A text of at most max_tokens characters therefore comes back
\* unchanged; for a longer one the vocabulary decides between the text
\* itself and decode(tokens[:max_tokens]), a prefix of the text of at least
\* max_tokens characters (tokens[:max_tokens] with a negative max_tokens
\* drops tokens from the end).
truncate_text(text, max_tokens, model) ==
  IF model \notin KnownModels THEN {KeyError}
  ELSE IF Len(text) <= max_tokens \/ text = <<>> THEN {text}
  ELSE IF max_tokens = 0 THEN {<<>>}
  ELSE {SubSeq(text, 1, k) : k \in Max({max_tokens, 0})..(Len(text) - 1)}
       \cup (IF max_tokens >= 1 THEN {text} ELSE {})

\* f"Summarize the following document:\n\n{text}\n\nSummary:"
Prompt(text) ==
  <<"S", "u", "m", "m", "a", "r", "i", "z", "e", " ", "t", "h", "e", " ",
    "f", "o", "l", "l", "o", "w", "i", "n", "g", " ",
    "d", "o", "c", "u", "m", "e", "n", "t", ":", "\n", "\n">>
  \o text \o <<"\n", "\n", "S", "u", "m", "m", "a", "r", "y", ":">>

\* ------------------------------------------------------ embedding service
\* The embedding service is a fixed function of the text it is given.
Weight(c) ==
  IF c = "s" THEN 1
  ELSE IF \E i \in 1..Len(Letters) : Letters[i] = c
       THEN CHOOSE i \in 1..Len(Letters) : Letters[i] = c
       ELSE 0

RECURSIVE SumWeights(_)
SumWeights(text) ==
  IF text = <<>> THEN 0 ELSE Weight(Head(text)) + SumWeights(Tail(text))

embed_query(text) == [dims |-> MappingDims, dir |-> (SumWeights(text) % 3) + 1]

\* get_embedding: the service's vector, or [] when the call raised.
get_embedding(text, ok) == IF ok THEN embed_query(text) ELSE EmptyVector

\* f"Summary: {summary}\n\n{chunk}"
context_text(summary, chunk) ==
  <<"Summary: ">> \o summary \o <<"\n", "\n">> \o chunk

\* ------------------------------------------------------------ the records
NewChildDoc(id, chunk, embedding) ==
  [chunk_id |-> id, chunk_text |-> chunk, embedding |-> embedding,
   my_join_field |-> [name |-> "chunk", parent |-> None]]

NewParentDoc(id, file, summary, now) ==
  [doc_id |-> id, file_name |-> file, file_path |-> file, summary |-> summary,
   timestamp |-> now, my_join_field |-> "document"]

\* "for child in child_docs: child['my_join_field']['parent'] = parent_doc_id"
SetParent(children, id) ==
  [i \in 1..Len(children) |->
     [children[i] EXCEPT !.my_join_field = [name |-> "chunk", parent |-> id]]]

IsChildSource(src) == "chunk_id" \in DOMAIN src
IsParentSource(src) == "doc_id" \in DOMAIN src

\* ------------------------------------------------------- the index writer
ParentAction(parent) ==
  [_op_type |-> "index", _index |-> OPENSEARCH_INDEX,
   _id |-> parent.doc_id, _source |-> parent]

\* Mutant of ChildAction: the child is routed by its own id.
ChildActionOwnRouting(parent, child) ==
  [_op_type |-> "index", _index |-> OPENSEARCH_INDEX,
   _id |-> child.chunk_id, _source |-> child, routing |-> child.chunk_id]

ChildAction(parent, child) ==
  [_op_type |-> "index", _index |-> OPENSEARCH_INDEX,
   _id |-> child.chunk_id, _source |-> child, routing |-> parent.doc_id]

\* the list "actions" built by index_documents_to_opensearch
BuildActions(parent, children) ==
  <<ParentAction(parent)>> \o
  [i \in 1..Len(children) |-> ChildAction(parent, children[i])]

HasRouting(a) == "routing" \in DOMAIN a

\* What the index keeps of one accepted "index" operation.
Stored(a) ==
  [_id |-> a._id, routing |-> IF HasRouting(a) THEN a.routing ELSE None,
   _source |-> a._source]

\* Mutant of IndexOp: the record is always added.
IndexOpAppend(st, a) == Append(st, Stored(a))

\* op_type "index": the record with that _id is replaced, or added.
IndexOp(st, a) ==
  IF \E i \in 1..Len(st) : st[i]._id = a._id
  THEN [i \in 1..Len(st) |-> IF st[i]._id = a._id THEN Stored(a) ELSE st[i]]
  ELSE Append(st, Stored(a))

\* helpers.bulk: the entries are applied in order; those in `accepted`
\* (positions in the batch) are written, the others are rejected.
RECURSIVE BulkApply(_, _, _, _)
BulkApply(st, batch, accepted, i) ==
  IF i > Len(batch) THEN st
  ELSE BulkApply(IF i \in accepted THEN IndexOp(st, batch[i]) ELSE st,
                 batch, accepted, i + 1)

\* An entry the index cannot accept: a vector whose dimensionality differs
\* from the mapping's.  (What the index does with an empty vector is left
\* open: it may accept or reject it.)
MustReject(a, dims) ==
  /\ dims # None
  /\ IsChildSource(a._source)
  /\ a._source.embedding.dims # 0
  /\ a._source.embedding.dims # dims

VARIABLES
  pc,           \* position of main() / process_pdf_file()
  indexExists,  \* client.indices.exists(index)
  indexDims,    \* dims of the embedding field of the existing index
  createCalls,  \* number of client.indices.create calls made
  ensures,      \* number of create_index_if_not_exists calls made
  store,        \* the records of the index, in the order they were added
  summaryModel, \* the setting OPENAI_SUMMARY_MODEL of this run
  pdf_files,    \* glob result: the files of this run
  fileIdx,      \* position in pdf_files
  full_text, summary, genFailed, chunks, child_docs, parent_doc,
  nextId,       \* the next uuid4
  actions,      \* the batch last handed to helpers.bulk
  rejected,     \* positions of that batch the index rejected
  ret,          \* what index_documents_to_opensearch returned
  writes,       \* number of calls of index_documents_to_opensearch
  faults,       \* external failures injected so far
  calls,        \* the calls made: loads of the run, and for the current file
  request,      \* the last query, and whether its two external calls worked
  response      \* what handle_query gave its caller for it

vars == <<pc, indexExists, indexDims, createCalls, ensures, store, summaryModel,
          pdf_files, fileIdx,
          full_text, summary, genFailed, chunks, child_docs, parent_doc,
          nextId, actions, rejected, ret, writes, faults, calls, request, response>>

locals == <<full_text, summary, genFailed, chunks, child_docs, parent_doc>>
indexVars == <<indexExists, indexDims, createCalls, store>>
adminVars == <<indexExists, indexDims, createCalls, ensures>>
writerVars == <<actions, rejected, ret, writes>>
queryVars == <<request, response>>
runVars == <<summaryModel, pdf_files, fileIdx, nextId, calls>>

NoParent == NewParentDoc(None, None, <<>>, None)
\* loads, failedLoads: loader.load() calls of the run and those that raised;
\* load: how the current file's load ended; gen, embed, bulk: the generation,
\* embedding and helpers.bulk calls made for the current file; embedsAtBulk:
\* the embedding calls made when helpers.bulk was called.
NoCalls == [loads |-> 0, failedLoads |-> 0, load |-> "none", gen |-> 0, embed |-> 0,
            bulk |-> 0, embedsAtBulk |-> 0]

NoRequest == [query |-> <<>>, embedOk |-> TRUE, searchOk |-> TRUE]
NoResponse == [kind |-> "none", searched |-> FALSE, hits |-> <<>>, results |-> <<>>]

Start(at) ==
  /\ pc = at
  /\ indexExists \in BOOLEAN
  /\ indexDims \in IF indexExists THEN {MappingDims, ForeignDims} ELSE {None}
  /\ createCalls = 0
  /\ ensures = 0
  /\ store = <<>>
  /\ pdf_files = <<>>
  /\ fileIdx = 0
  /\ full_text = <<>>
  /\ summary = <<>>
  /\ genFailed = FALSE
  /\ chunks = <<>>
  /\ child_docs = <<>>
  /\ parent_doc = NoParent
  /\ nextId = 1
  /\ actions = <<>>
  /\ rejected = {}
  /\ ret = "unset"
  /\ writes = 0
  /\ faults = 0
  /\ calls = NoCalls
  /\ request = NoRequest
  /\ response = NoResponse

\* main() starts with the settings read from the environment.
Init == Start("main") /\ summaryModel \in SummaryModels

CanFail == faults < MaxFaults

\* --------------------------------------------------------- index creation
\* Mutant of create_index_if_not_exists: the index is created without the
\* existence check, which replaces an existing index by an empty one.
create_index_always(raises) ==
  /\ ensures' = ensures + 1
  /\ createCalls' = createCalls + 1
  /\ indexExists' = ~raises
  /\ indexDims' = IF raises THEN None ELSE MappingDims
  /\ store' = <<>>

\* create_index_if_not_exists: nothing when the index exists; otherwise one
\* client.indices.create call with the mapping, which gives the index
\* or raises.
create_index_if_not_exists(raises) ==
  /\ ensures' = ensures + 1
  /\ IF indexExists
     THEN UNCHANGED indexVars
     ELSE /\ createCalls' = createCalls + 1
          /\ indexExists' = ~raises
          /\ indexDims' = IF raises THEN None ELSE MappingDims
          /\ store' = <<>>

\* ------------------------------------------------------------------ main
\* main: the client is made and create_index_if_not_exists is called; an
\* exception of the create call ends the run.
CreateIndexIfNotExists ==
  /\ pc = "main"
  /\ \E raises \in BOOLEAN :
       /\ raises => (~indexExists /\ CanFail)
       /\ create_index_if_not_exists(raises)
       /\ faults' = IF raises THEN faults + 1 ELSE faults
       /\ pc' = IF raises THEN "crashed" ELSE "glob"
  /\ UNCHANGED <<runVars, locals, writerVars, queryVars>>

\* pdf_files = glob(...); "if not pdf_files: return"
Glob ==
  /\ pc = "glob"
  /\ \E n \in 0..NumFiles :
       /\ pdf_files' = [i \in 1..n |-> i]
       /\ fileIdx' = IF n = 0 THEN 0 ELSE 1
       /\ pc' = IF n = 0 THEN "done" ELSE "load"
  /\ UNCHANGED <<indexVars, ensures, summaryModel, locals, nextId, calls, writerVars,
                 faults, queryVars>>

\* the loop of main: the next file, or the end of the run
NextFile == IF fileIdx < Len(pdf_files) THEN "load" ELSE "done"

\* Mutant of LoadPdf: the exception of the loader is not caught and ends
\* the run.
LoadPdfPropagates ==
  /\ pc = "load"
  /\ \/ \E k \in 0..MaxChunks :
          /\ full_text' = join([i \in 1..k |-> <<Letters[i]>>])
          /\ pc' = "summarize"
          /\ calls' = [NoCalls EXCEPT !.loads = calls.loads + 1,
                                      !.failedLoads = calls.failedLoads,
                                      !.load = "ok"]
          /\ UNCHANGED faults
     \/ /\ CanFail
        /\ faults' = faults + 1
        /\ full_text' = <<>>
        /\ pc' = "crashed"
        /\ calls' = [NoCalls EXCEPT !.loads = calls.loads + 1,
                                    !.failedLoads = calls.failedLoads + 1,
                                    !.load = "failed"]
  /\ summary' = <<>>
  /\ genFailed' = FALSE
  /\ chunks' = <<>>
  /\ child_docs' = <<>>
  /\ parent_doc' = NoParent
  /\ actions' = <<>>
  /\ rejected' = {}
  /\ ret' = "unset"
  /\ UNCHANGED <<indexVars, ensures, summaryModel, pdf_files, fileIdx, nextId, writes, queryVars>>

\* process_pdf_file: loader.load() and the join of the pages
LoadPdf ==
  /\ pc = "load"
  /\ \/ \E k \in 0..MaxChunks :
          /\ full_text' = join([i \in 1..k |-> <<Letters[i]>>])
          /\ pc' = "summarize"
          /\ calls' = [NoCalls EXCEPT !.loads = calls.loads + 1,
                                      !.failedLoads = calls.failedLoads,
                                      !.load = "ok"]
          /\ UNCHANGED <<fileIdx, faults>>
     \/ /\ CanFail
        /\ faults' = faults + 1
        /\ full_text' = <<>>
        /\ pc' = NextFile
        /\ fileIdx' = IF fileIdx < Len(pdf_files) THEN fileIdx + 1 ELSE fileIdx
        /\ calls' = [NoCalls EXCEPT !.loads = calls.loads + 1,
                                    !.failedLoads = calls.failedLoads + 1,
                                    !.load = "failed"]
  /\ summary' = <<>>
  /\ genFailed' = FALSE
  /\ chunks' = <<>>
  /\ child_docs' = <<>>
  /\ parent_doc' = NoParent
  /\ actions' = <<>>
  /\ rejected' = {}
  /\ ret' = "unset"
  /\ UNCHANGED <<indexVars, ensures, summaryModel, pdf_files, nextId, writes, queryVars>>

\* Mutant of GenerateSummary: the exception of the generation call is not
\* caught and ends the run.
GenerateSummaryPropagates ==
  /\ pc = "summarize"
  /\ \E prompt \in truncate_text(Prompt(full_text), CONTEXT_MAX_TOKENS, summaryModel) :
       IF prompt = KeyError
       THEN /\ pc' = "crashed"
            /\ UNCHANGED <<summary, genFailed, faults, calls>>
       ELSE /\ \/ /\ summary' = strip(GeneratedSummary)
                  /\ genFailed' = FALSE
                  /\ pc' = "chunk"
                  /\ UNCHANGED faults
               \/ /\ CanFail
                  /\ faults' = faults + 1
                  /\ summary' = <<>>
                  /\ genFailed' = TRUE
                  /\ pc' = "crashed"
            /\ calls' = [calls EXCEPT !.gen = @ + 1]
  /\ UNCHANGED <<indexVars, ensures, summaryModel, pdf_files, fileIdx, full_text, chunks, child_docs,
                 parent_doc, nextId, writerVars, queryVars>>

\* generate_summary: the prompt is truncated first, outside the try: an
\* exception of truncate_text leaves generate_summary, process_pdf_file and
\* main, and no generation call is made.  Otherwise the result is the
\* stripped text of the first choice, or "" when the generation call raised.
GenerateSummary ==
  /\ pc = "summarize"
  /\ \E prompt \in truncate_text(Prompt(full_text), CONTEXT_MAX_TOKENS, summaryModel) :
       IF prompt = KeyError
       THEN /\ pc' = "crashed"
            /\ UNCHANGED <<summary, genFailed, faults, calls>>
       ELSE /\ \/ /\ summary' = strip(GeneratedSummary)
                  /\ genFailed' = FALSE
                  /\ UNCHANGED faults
               \/ /\ CanFail
                  /\ faults' = faults + 1
                  /\ summary' = <<>>
                  /\ genFailed' = TRUE
            /\ pc' = "chunk"
            /\ calls' = [calls EXCEPT !.gen = @ + 1]
  /\ UNCHANGED <<indexVars, ensures, summaryModel, pdf_files, fileIdx, full_text, chunks, child_docs,
                 parent_doc, nextId, writerVars, queryVars>>

ChunkDocument ==
  /\ pc = "chunk"
  /\ chunks' = chunk_document(full_text)
  /\ pc' = "embed"
  /\ UNCHANGED <<indexVars, ensures, summaryModel, pdf_files, fileIdx, full_text, summary, genFailed,
                 child_docs, parent_doc, nextId, calls, writerVars, faults, queryVars>>

\* one turn of "for chunk in chunks"
EmbedChunk ==
  /\ pc = "embed"
  /\ Len(child_docs) < Len(chunks)
  /\ LET chunk == chunks[Len(child_docs) + 1]
         text == context_text(summary, chunk)
     IN  \E ok \in BOOLEAN :
           /\ ok \/ CanFail
           /\ faults' = IF ok THEN faults ELSE faults + 1
           /\ child_docs' =
                Append(child_docs, NewChildDoc(nextId, chunk, get_embedding(text, ok)))
  /\ nextId' = nextId + 1
  /\ calls' = [calls EXCEPT !.embed = @ + 1]
  /\ UNCHANGED <<pc, indexVars, ensures, summaryModel, pdf_files, fileIdx, full_text, summary, genFailed,
                 chunks, parent_doc, writerVars, queryVars>>

\* Mutant of BuildParent: the parent is built and the batch goes out while
\* chunks are still waiting for their embedding.
BuildParentEarly ==
  /\ pc = "embed"
  /\ Len(child_docs) <= Len(chunks)
  /\ parent_doc' = NewParentDoc(nextId, pdf_files[fileIdx], summary, fileIdx)
  /\ child_docs' = SetParent(child_docs, nextId)
  /\ nextId' = nextId + 1
  /\ pc' = "index"
  /\ UNCHANGED <<indexVars, ensures, summaryModel, pdf_files, fileIdx, full_text, summary, genFailed,
                 chunks, calls, writerVars, faults, queryVars>>

\* Mutant of BuildParent: a document without chunks is skipped.
BuildParentSkipsEmpty ==
  /\ pc = "embed"
  /\ Len(child_docs) = Len(chunks)
  /\ IF chunks = <<>>
     THEN /\ pc' = NextFile
          /\ fileIdx' = IF fileIdx < Len(pdf_files) THEN fileIdx + 1 ELSE fileIdx
          /\ UNCHANGED <<parent_doc, child_docs, nextId>>
     ELSE /\ parent_doc' = NewParentDoc(nextId, pdf_files[fileIdx], summary, fileIdx)
          /\ child_docs' = SetParent(child_docs, nextId)
          /\ nextId' = nextId + 1
          /\ pc' = "index"
          /\ UNCHANGED fileIdx
  /\ UNCHANGED <<indexVars, ensures, summaryModel, pdf_files, full_text, summary, genFailed,
                 chunks, calls, writerVars, faults, queryVars>>

\* the parent record and the loop that sets the parent id in each child
BuildParent ==
  /\ pc = "embed"
  /\ Len(child_docs) = Len(chunks)
  /\ parent_doc' = NewParentDoc(nextId, pdf_files[fileIdx], summary, fileIdx)
  /\ child_docs' = SetParent(child_docs, nextId)
  /\ nextId' = nextId + 1
  /\ pc' = "index"
  /\ UNCHANGED <<indexVars, ensures, summaryModel, pdf_files, fileIdx, full_text, summary, genFailed,
                 chunks, calls, writerVars, faults, queryVars>>

\* index_documents_to_opensearch(client, parent, children): the batch is
\* built and handed to helpers.bulk; an exception of helpers.bulk is logged;
\* the function returns None either way.
Write(parent, children) ==
  LET batch == BuildActions(parent, children)
      all == 1..Len(batch)
      forced == {i \in all : MustReject(batch[i], indexDims)}
  IN  /\ actions' = batch
      /\ ret' = "None"
      /\ writes' = writes + 1
      /\ IF indexExists
         THEN /\ \E rej \in SUBSET all :
                   /\ forced \subseteq rej
                   /\ faults + Cardinality(rej \ forced) <= MaxFaults
                   /\ faults' = faults + Cardinality(rej \ forced)
                   /\ rejected' = rej
                   /\ store' = BulkApply(store, batch, all \ rej, 1)
              /\ UNCHANGED <<indexExists, indexDims>>
         ELSE \* The index is missing: the service either makes it on the
              \* fly, with a mapping it derives from the records (no vector
              \* field, hence no dims), or rejects every entry.
              \/ /\ indexExists' = TRUE
                 /\ indexDims' = None
                 /\ \E rej \in SUBSET all :
                      /\ faults + Cardinality(rej) <= MaxFaults
                      /\ faults' = faults + Cardinality(rej)
                      /\ rejected' = rej
                      /\ store' = BulkApply(store, batch, all \ rej, 1)
              \/ /\ rejected' = all
                 /\ UNCHANGED <<indexExists, indexDims, store, faults>>

IndexDocuments ==
  /\ pc = "index"
  /\ Write(parent_doc, child_docs)
  /\ pc' = NextFile
  /\ fileIdx' = IF fileIdx < Len(pdf_files) THEN fileIdx + 1 ELSE fileIdx
  /\ calls' = [calls EXCEPT !.bulk = @ + 1, !.embedsAtBulk = calls.embed]
  /\ UNCHANGED <<createCalls, ensures, summaryModel, pdf_files, locals, nextId, queryVars>>

Next ==
  \/ CreateIndexIfNotExists
  \/ Glob
  \/ LoadPdf
  \/ GenerateSummary
  \/ ChunkDocument
  \/ EmbedChunk
  \/ BuildParent
  \/ IndexDocuments

Spec == Init /\ [][Next]_vars

\* ------------------------------------------------------- the hybrid query
\* The query texts the callers send.
Queries == {<<"a">>, <<"b">>, <<"a", " ", "b">>}

\* the words of a text: its maximal runs of non-blank characters
RECURSIVE Words(_)
Words(text) ==
  LET t == lstrip(text)
      sp == {i \in 1..Len(t) : IsSpace(t[i])}
      n == IF sp = {} THEN Len(t) + 1 ELSE Min(sp)
  IN  IF t = <<>> THEN {}
      ELSE {SubSeq(t, 1, n - 1)} \cup Words(SubSeq(t, n, Len(t)))

\* {"match": {"chunk_text": query_text}}: a word of the query is in the chunk
match(chunk_text, query_text) == Words(chunk_text) \cap Words(query_text) # {}

\* cosineSimilarity(params.query_vector, 'embedding'), in tenths
cosineSimilarity(query_vector, embedding) ==
  10 - 5 * Abs(query_vector.dir - embedding.dir)

\* the script of script_score: "cosineSimilarity(...) + 1.0"
script_score(query_vector, embedding) ==
  cosineSimilarity(query_vector, embedding) + 10

\* The script cannot be evaluated on a stored vector of another length.
ScriptFails(query_vector, embedding) == embedding.dims # query_vector.dims

\* positions of the chunk records the inner query selects
MatchingChildren(st, query_text) ==
  {i \in 1..Len(st) :
     /\ IsChildSource(st[i]._source)
     /\ match(st[i]._source.chunk_text, query_text)}

\* has_child: the matching children of the parent record at position j
ChildrenOf(st, j, query_text) ==
  {i \in MatchingChildren(st, query_text) :
     st[i]._source.my_join_field.parent = st[j]._id}

\* Mutant of has_child_score: the score mode "min".
has_child_score_min(scores) == Min(scores)

\* "score_mode": "max"
has_child_score(scores) == Max(scores)

ParentScore(st, j, query_text, query_vector) ==
  has_child_score({script_score(query_vector, st[i]._source.embedding) :
                     i \in ChildrenOf(st, j, query_text)})

\* positions of the parent records the has_child query returns
MatchingParents(st, query_text) ==
  {j \in 1..Len(st) :
     /\ IsParentSource(st[j]._source)
     /\ ChildrenOf(st, j, query_text) # {}}

\* the hits, best score first; equal scores in index order
RECURSIVE SortHits(_, _, _, _)
SortHits(st, js, query_text, query_vector) ==
  IF js = {} THEN <<>>
  ELSE LET sc(j) == ParentScore(st, j, query_text, query_vector)
           best == CHOOSE j \in js :
                     \A k \in js : sc(j) > sc(k) \/ (sc(j) = sc(k) /\ j <= k)
       IN  <<[_id |-> st[best]._id, _score |-> sc(best),
              _source |-> st[best]._source]>>
           \o SortHits(st, js \ {best}, query_text, query_vector)

\* client.search(index, body=opensearch_query)["hits"]["hits"]
search(st, query_text, query_vector) ==
  SortHits(st, MatchingParents(st, query_text), query_text, query_vector)

\* the search request fails as a whole when the script fails on a candidate
SearchFails(st, query_text, query_vector) ==
  \E i \in MatchingChildren(st, query_text) :
    ScriptFails(query_vector, st[i]._source.embedding)

parent_info(hit) ==
  [doc_id |-> hit._id, file_name |-> hit._source.file_name,
   file_path |-> hit._source.file_path, summary |-> hit._source.summary,
   timestamp |-> hit._source.timestamp]

\* Mutant of handle_query: a failed query embedding falls back to the
\* lexical part of the query.
handle_query_fallback(st, query_text, embedOk, searchOk) ==
  LET query_vector == embed_query(query_text)
      hits == search(st, query_text, query_vector)
  IN  IF ~searchOk \/ (embedOk /\ SearchFails(st, query_text, query_vector))
      THEN [kind |-> "error", searched |-> TRUE, hits |-> <<>>, results |-> <<>>]
      ELSE [kind |-> "results", searched |-> TRUE, hits |-> hits,
            results |-> [k \in 1..Len(hits) |-> parent_info(hits[k])]]

\* handle_query: the exception of embed_query is not caught and reaches the
\* caller; the exception of client.search becomes MCPResponse(error=...);
\* otherwise MCPResponse(results=...), one row per hit, in the hits' order.
handle_query(st, query_text, embedOk, searchOk) ==
  LET query_vector == embed_query(query_text)
      hits == search(st, query_text, query_vector)
  IN  IF ~embedOk
      THEN [kind |-> "raised", searched |-> FALSE, hits |-> <<>>, results |-> <<>>]
      ELSE IF ~searchOk \/ SearchFails(st, query_text, query_vector)
      THEN [kind |-> "error", searched |-> TRUE, hits |-> <<>>, results |-> <<>>]
      ELSE [kind |-> "results", searched |-> TRUE, hits |-> hits,
            results |-> [k \in 1..Len(hits) |-> parent_info(hits[k])]]

\* One request served by the query server.  Queries are served once the
\* ingestion run has ended; a behaviour follows one request, since a response
\* depends on the index and on the request only.
HandleQuery ==
  /\ pc = "done"
  /\ response = NoResponse
  /\ \E q \in Queries, embedOk \in BOOLEAN, searchOk \in BOOLEAN :
       /\ request' = [query |-> q, embedOk |-> embedOk, searchOk |-> searchOk]
       /\ response' = handle_query(store, q, embedOk, searchOk)
  /\ UNCHANGED <<pc, indexVars, ensures, runVars, locals, writerVars, faults>>

NextQuery == Next \/ HandleQuery

SpecQuery == Init /\ [][NextQuery]_vars

\* ------------------------------------------------------ the writer harness
\* Direct calls of create_index_if_not_exists and of
\* index_documents_to_opensearch, in any order, with records whose ids the
\* caller chose.
HarnessPcs == {"h_start", "h_ensured", "h_written", "h_rewritten"}

HarnessChildren(p, k, sum) ==
  SetParent([i \in 1..k |->
               NewChildDoc(10 * p + i, <<Letters[i]>>,
                           embed_query(context_text(sum, <<Letters[i]>>)))], p)

HarnessSummary(p) == IF p % 2 = 1 THEN GeneratedSummary ELSE <<>>

HarnessDocs ==
  {[parent |-> NewParentDoc(p, p, HarnessSummary(p), p),
    children |-> HarnessChildren(p, k, HarnessSummary(p))] :
     p \in 1..NumFiles, k \in 0..MaxChunks}

HarnessEnsure ==
  /\ pc \in HarnessPcs
  /\ ensures + writes < MaxCalls
  /\ \E raises \in BOOLEAN :
       /\ raises => (~indexExists /\ CanFail)
       /\ create_index_if_not_exists(raises)
       /\ faults' = IF raises THEN faults + 1 ELSE faults
  /\ pc' = "h_ensured"
  /\ UNCHANGED <<runVars, locals, writerVars, queryVars>>

HarnessWrite ==
  /\ pc \in HarnessPcs
  /\ ensures + writes < MaxCalls
  /\ \E d \in HarnessDocs :
       /\ Write(d.parent, d.children)
       /\ parent_doc' = d.parent
       /\ child_docs' = d.children
       /\ pc' = IF BuildActions(d.parent, d.children) = actions
                THEN "h_rewritten" ELSE "h_written"
  /\ UNCHANGED <<createCalls, ensures, runVars, full_text, summary, genFailed, chunks,
                 queryVars>>

NextWriter == HarnessEnsure \/ HarnessWrite

InitWriter == Start("h_start") /\ summaryModel = OPENAI_SUMMARY_MODEL

SpecWriter == InitWriter /\ [][NextWriter]_vars

\* ------------------------------------------------------ chunking on its own
\* chunk_document applied to the texts over a small alphabet, and to the
\* text "A\n\nB\n\n\nC".
TextAlphabet == {"A", "B", " ", "\n", "\f", " "}
ExampleText == <<"A", "\n", "\n", "B", "\n", "\n", "\n", "C">>
Texts == UNION {[1..n -> TextAlphabet] : n \in 0..MaxText} \cup {ExampleText}

ChunkText ==
  /\ pc = "c_start"
  /\ \E text \in Texts :
       /\ full_text' = text
       /\ chunks' = chunk_document(text)
  /\ pc' = "c_done"
  /\ UNCHANGED <<indexVars, ensures, runVars, summary, genFailed, child_docs,
                 parent_doc, writerVars, faults, queryVars>>

NextChunk == ChunkText

InitChunk == Start("c_start") /\ summaryModel = OPENAI_SUMMARY_MODEL

SpecChunk == InitChunk /\ [][NextChunk]_vars

\* ----------------------------------------------------------------- claims
Written == actions # <<>>

\* C1: the batch handed to the store for a parent and its K children has
\* exactly K+1 entries: the parent entry, whose id is the parent id, and one
\* entry per child, routed by the parent id and referring to the parent id.
C1_BatchShape ==
  Written =>
    /\ Len(actions) = Len(child_docs) + 1
    /\ Len(child_docs) = Len(chunks)
    /\ actions[1]._id = parent_doc.doc_id
    /\ actions[1]._source = parent_doc
    /\ ~HasRouting(actions[1])
    /\ \A i \in 1..Len(child_docs) :
         /\ actions[i + 1]._id = child_docs[i].chunk_id
         /\ HasRouting(actions[i + 1])
         /\ actions[i + 1].routing = parent_doc.doc_id
         /\ actions[i + 1]._source.my_join_field.parent = parent_doc.doc_id

C1_Witness == Written /\ Len(child_docs) = 2 /\ parent_doc.doc_id # None

\* C2: every stored child record refers to a parent id whose parent record
\* is stored too.
C2_NoOrphanChild ==
  \A i \in 1..Len(store) :
    IsChildSource(store[i]._source) =>
      \E j \in 1..Len(store) :
        /\ IsParentSource(store[j]._source)
        /\ store[j]._id = store[i]._source.my_join_field.parent

\* C3: the writer's return value tells a failed write from a successful one:
\* it returns None after a fully accepted batch, and something else when an
\* entry of the batch was rejected.
C3_OutcomeReturned == Written => (ret = "None" <=> rejected = {})

\* C4: no entry of a submitted batch carries an empty embedding.
C4_NoEmptyEmbeddingSubmitted ==
  \A i \in 1..Len(actions) :
    IsChildSource(actions[i]._source) => actions[i]._source.embedding # EmptyVector

\* C6: when the generation call fails the summary is empty, the run goes on,
\* the chunks are embedded with the empty summary prefix, and the parent and
\* all the children are submitted.
C6_SummaryFailureIsBestEffort ==
  genFailed =>
    /\ summary = <<>>
    /\ pc \in {"chunk", "embed", "index", "load", "done"}
    /\ \A i \in 1..Len(child_docs) :
         child_docs[i].embedding \in
           {embed_query(<<"Summary: ", "\n", "\n">> \o chunks[i]), EmptyVector}
    /\ Written =>
         /\ Len(actions) = Len(chunks) + 1
         /\ actions[1]._source.summary = <<>>
         /\ \A i \in 1..Len(chunks) : actions[i + 1]._source.chunk_text = chunks[i]

C6_Witness ==
  /\ genFailed /\ Written /\ Len(chunks) = 2
  /\ actions[2]._source.embedding # EmptyVector

\* C7: an index whose schema does not fit (here: the dimensionality of the
\* vector field) fails the run at startup: no document is processed.
C7_SchemaErrorFailsAtStartup ==
  (indexExists /\ indexDims # MappingDims) => pc \in {"main", "crashed"}
\* C5: when embedding the query text fails, the failure reaches the caller,
\* no search request is issued and no result list is returned.
C5_QueryEmbeddingFailureAborts ==
  (~request.embedOk) =>
    /\ response.kind = "raised"
    /\ ~response.searched
    /\ response.results = <<>>

C5_Witness ==
  /\ ~request.embedOk
  /\ response.kind = "raised"
  /\ MatchingParents(store, request.query) # {}

\* C8: create_index_if_not_exists on an existing index issues no create call
\* and leaves the index and its records as they are.
C8_CreateIndexIdempotent ==
  [][(ensures' = ensures + 1 /\ indexExists) =>
       /\ indexExists'
       /\ createCalls' = createCalls
       /\ indexDims' = indexDims
       /\ store' = store]_vars

C8_Witness ==
  /\ pc = "h_ensured"
  /\ createCalls = 0
  /\ Len(store) >= 2

\* C9: a batch whose records are all stored already, with the same ids and
\* the same content, leaves the index as it is when it is submitted again;
\* the index never holds two records with one id.
AlreadyStored(st, batch) ==
  \A i \in 1..Len(batch) : \E j \in 1..Len(st) : st[j] = Stored(batch[i])

C9_ResubmitIsIdempotent ==
  [][(writes' = writes + 1) =>
       /\ (AlreadyStored(store, actions') => store' = store)
       /\ \A j, l \in 1..Len(store') : store'[j]._id = store'[l]._id => j = l
       /\ (rejected' = {} =>
             Cardinality({j \in 1..Len(store') :
                            \E i \in 1..Len(actions') : store'[j]._id = actions'[i]._id})
               = Len(actions'))]_vars

C9_Witness ==
  /\ pc = "h_rewritten"
  /\ rejected = {}
  /\ Len(actions) = 3
  /\ Len(store) = 3
  /\ AlreadyStored(store, actions)

\* C10: each returned parent's score is the greatest score of its matching
\* chunks, the rows come best score first, and a parent without a matching
\* chunk is not returned.
ChunkScores(id) ==
  {script_score(embed_query(request.query), store[i]._source.embedding) :
     i \in {c \in 1..Len(store) :
              /\ IsChildSource(store[c]._source)
              /\ store[c]._source.my_join_field.parent = id
              /\ match(store[c]._source.chunk_text, request.query)}}

C10_ParentRankedByBestChunk ==
  response.kind = "results" =>
    /\ Len(response.results) = Len(response.hits)
    /\ \A k \in 1..Len(response.hits) :
         /\ response.results[k].doc_id = response.hits[k]._id
         /\ response.hits[k]._score \in ChunkScores(response.hits[k]._id)
         /\ \A sc \in ChunkScores(response.hits[k]._id) : sc <= response.hits[k]._score
         /\ \A l \in 1..Len(response.hits) :
              k < l => response.hits[k]._score >= response.hits[l]._score
    /\ \A j \in 1..Len(store) :
         (IsParentSource(store[j]._source) /\ ChunkScores(store[j]._id) = {}) =>
           \A k \in 1..Len(response.hits) : response.hits[k]._id # store[j]._id

C10_Witness ==
  /\ response.kind = "results"
  /\ Len(response.hits) = 2
  /\ response.hits[1]._score > response.hits[2]._score
  /\ Cardinality(ChunkScores(response.hits[1]._id)) = 2
  /\ response.hits[1]._id > response.hits[2]._id
\* C11: when loading a file fails, no summarization, embedding or index-write
\* call is made for it, and main goes on to every remaining file: the run
\* ends only when each file of the directory has been tried.
C11_FailedLoadIsSkipped ==
  /\ calls.load = "failed" =>
       /\ calls.gen = 0
       /\ calls.embed = 0
       /\ calls.bulk = 0
       /\ actions = <<>>
       /\ pc \in {"load", "done"}
  /\ pc = "load" => calls.loads = fileIdx - 1
  /\ pc = "done" => calls.loads = Len(pdf_files)

C11_Witness ==
  /\ pc = "done"
  /\ calls.loads = 2
  /\ calls.failedLoads = 1
  /\ calls.load = "ok"
  /\ calls.bulk = 1
  /\ Len(store) = 3

\* C14: within one document the bulk write is a barrier: when the batch is
\* submitted every chunk's embedding call has been made and every child
\* carries the parent id, and the document gets exactly one submission.
C14_WriteIsBarrier ==
  /\ calls.bulk <= 1
  /\ calls.bulk = 1 =>
       /\ calls.embedsAtBulk = Len(chunks)
       /\ calls.embed = Len(chunks)
       /\ Len(actions) = Len(chunks) + 1
       /\ \A i \in 2..Len(actions) :
            /\ actions[i]._source.my_join_field.parent # None
            /\ actions[i]._source.my_join_field.parent = actions[1]._id
  /\ (calls.load = "ok" /\ pc \in {"load", "done"}) => calls.bulk = 1

C14_Witness ==
  /\ calls.bulk = 1
  /\ calls.embedsAtBulk = 2
  /\ Len(actions) = 3

\* C15: a document that loads but yields no chunk gets no embedding call and
\* a batch of exactly one entry, its parent record; it is not skipped.  The
\* index then holds a parent without children, which no query returns.
HasStoredChild(id) ==
  \E i \in 1..Len(store) :
    /\ IsChildSource(store[i]._source)
    /\ store[i]._source.my_join_field.parent = id

C15_EmptyDocumentStillWritten ==
  /\ (calls.load = "ok" /\ chunks = <<>> /\ pc \in {"embed", "index", "load", "done"}) =>
       /\ calls.embed = 0
       /\ child_docs = <<>>
       /\ pc \in {"load", "done"} =>
            /\ calls.bulk = 1
            /\ Len(actions) = 1
            /\ actions[1]._id = parent_doc.doc_id
            /\ IsParentSource(actions[1]._source)
  /\ response.kind = "results" =>
       \A k \in 1..Len(response.hits) : HasStoredChild(response.hits[k]._id)

C15_Witness ==
  /\ pc = "done"
  /\ calls.load = "ok"
  /\ chunks = <<>>
  /\ rejected = {}
  /\ \E j \in 1..Len(store) :
       /\ store[j]._id = parent_doc.doc_id
       /\ ~HasStoredChild(store[j]._id)
  /\ response.kind = "results"
  /\ Len(response.hits) = 1
\* C13: paragraph chunking gives, in their order, the trimmed non-empty
\* paragraphs of the text, a paragraph being a maximal run of lines between
\* empty lines; "A\n\nB\n\n\nC" gives A, B, C and the empty text gives nothing.
RECURSIVE LinesOf(_)
LinesOf(s) ==
  LET nl == {i \in 1..Len(s) : s[i] = "\n"}
  IN  IF nl = {} THEN <<s>>
      ELSE <<SubSeq(s, 1, Min(nl) - 1)>> \o LinesOf(SubSeq(s, Min(nl) + 1, Len(s)))

\* the paragraphs of a list of lines; `cur` is the paragraph being read
RECURSIVE ParagraphsOf(_, _)
ParagraphsOf(lines, cur) ==
  LET done == IF strip(cur) = <<>> THEN <<>> ELSE <<strip(cur)>>
  IN  IF lines = <<>> THEN done
      ELSE IF Head(lines) = <<>> THEN done \o ParagraphsOf(Tail(lines), <<>>)
      ELSE ParagraphsOf(Tail(lines), cur \o <<"\n">> \o Head(lines))

C13_ParagraphChunks ==
  pc = "c_done" =>
    /\ chunks = ParagraphsOf(LinesOf(full_text), <<>>)
    /\ \A i \in 1..Len(chunks) :
         /\ chunks[i] # <<>>
         /\ ~IsSpace(chunks[i][1])
         /\ ~IsSpace(chunks[i][Len(chunks[i])])
    /\ full_text = ExampleText => chunks = << <<"A">>, <<"B">>, <<"C">> >>
    /\ full_text = <<>> => chunks = <<>>

C13_Witness ==
  /\ pc = "c_done"
  /\ full_text = ExampleText
  /\ chunks = << <<"A">>, <<"B">>, <<"C">> >>
====
